---- MODULE Spec2Model ----
(***************************************************************************)
(* Model of preview_server.py: the byte-range video responder              *)
(* (_VideoRequestHandler._serve_video) and the live frame broadcaster      *)
(* (_FrameProducer, _CameraRequestHandler._serve_stream).                  *)
(*                                                                         *)
(* SpecVideo is the file-mode server: one request handler walking through  *)
(* _serve_video while the environment may remove, protect or replace the   *)
(* file and the peer may go away.  SpecStream is the live-mode server seen *)
(* by its viewers (acquisition worker and /stream handlers), SpecFault the *)
(* same with socket writes that can fail, SpecStall the worker with two    *)
(* viewers side by side, SpecStop the worker with the callers of stop(),   *)
(* and SpecRoute the path dispatch of do_GET in both handlers.             *)
(***************************************************************************)
EXTENDS Integers, Sequences, FiniteSets, TLC

\* ---------------------------------------------------------------- bounds
MaxSize == 3        \* longest file, in bytes
MaxEnv == 1         \* environment events (remove, chmod, replace, hang-up)

\* chunk = 64 * 1024 in the source; scaled down to 2 so that a body of
\* MaxSize bytes needs more than one read of the loop.
chunk == 2

Byte == {0, 1}

Min(a, b) == IF a < b THEN a ELSE b

RECURSIVE SeqsUpTo(_, _)
SeqsUpTo(S, n) ==
    IF n = 0 THEN {<< >>}
    ELSE LET shorter == SeqsUpTo(S, n - 1)
         IN  shorter \cup {Append(s, x) : s \in shorter, x \in S}

Files == SeqsUpTo(Byte, MaxSize)

\* ------------------------------------------------- text of the Range header
DigitChars == <<"0", "1", "2", "3", "4", "5", "6", "7", "8", "9">>

IsDigit(c) == \E i \in 1..10 : DigitChars[i] = c

DigitVal(c) == (CHOOSE i \in 1..10 : DigitChars[i] = c) - 1

\* int() of a string of decimal digits
RECURSIVE int(_)
int(ds) ==
    IF ds = << >> THEN 0
    ELSE int(SubSeq(ds, 1, Len(ds) - 1)) * 10 + DigitVal(ds[Len(ds)])

\* str() of an integer
RECURSIVE StrNat(_)
StrNat(n) ==
    IF n < 10 THEN <<DigitChars[n + 1]>>
    ELSE StrNat(n \div 10) \o <<DigitChars[(n % 10) + 1]>>

str(n) == IF n < 0 THEN <<"-">> \o StrNat(0 - n) ELSE StrNat(n)

\* length of the longest run of digits of s that starts at index i (greedy \d*)
RECURSIVE DigitRun(_, _)
DigitRun(s, i) ==
    IF i <= Len(s) /\ IsDigit(s[i]) THEN 1 + DigitRun(s, i + 1) ELSE 0

BytesEq == <<"b", "y", "t", "e", "s", "=">>

\* re.match(r"bytes=(\d+)-(\d*)", range_header): anchored at the start only
re_match(h) ==
    LET n1   == DigitRun(h, 7)
        dash == 7 + n1
        n2   == DigitRun(h, dash + 1)
    IN  IF /\ Len(h) >= 6
           /\ SubSeq(h, 1, 6) = BytesEq
           /\ n1 >= 1
           /\ dash <= Len(h)
           /\ h[dash] = "-"
        THEN [matched |-> TRUE,
              g1 |-> SubSeq(h, 7, dash - 1),
              g2 |-> SubSeq(h, dash + 1, dash + n2)]
        ELSE [matched |-> FALSE, g1 |-> << >>, g2 |-> << >>]

\* ResolveRange with "length = end - start", the span taken as half-open
ResolveRange_NoPlusOne(h, size) ==
    LET m  == re_match(h)
        s0 == IF m.matched THEN int(m.g1) ELSE 0
        e0 == IF m.matched /\ m.g2 # << >> THEN int(m.g2) ELSE size - 1
        s  == Min(s0, size - 1)
        e  == Min(e0, size - 1)
    IN  [start |-> s, end |-> e, length |-> e - s]

\* The range resolved by _serve_video from the header text and the size.
ResolveRange(h, size) ==
    LET m  == re_match(h)
        s0 == IF m.matched THEN int(m.g1) ELSE 0
        e0 == IF m.matched /\ m.g2 # << >> THEN int(m.g2) ELSE size - 1
        s  == Min(s0, size - 1)
        e  == Min(e0, size - 1)
    IN  [start |-> s, end |-> e, length |-> e - s + 1]

\* f"bytes {start}-{end}/{file_size}"
ContentRangeText(s, e, size) ==
    <<"b", "y", "t", "e", "s", " ">> \o str(s) \o <<"-">> \o str(e)
        \o <<"/">> \o str(size)

\* ------------------------------------------------------- request headers
Numerals == {str(n) : n \in 0..(MaxSize + 1)} \cup {<<"0", "2">>, <<"1", "0">>}

NoRange == [present |-> FALSE, text |-> << >>]

RangeTexts ==
    {BytesEq \o s \o <<"-">> \o e : s \in Numerals, e \in Numerals \cup {<< >>}}
    \cup {<< >>,
          BytesEq \o <<"-", "1">>,
          BytesEq \o <<"a", "b", "c">>,
          BytesEq \o <<"1">>,
          <<"i", "t", "e", "m", "s", "=", "0", "-", "1">>,
          BytesEq \o <<"0", "-", "1", "x">>}

RangeHeaders == {NoRange} \cup {[present |-> TRUE, text |-> t] : t \in RangeTexts}

\* what the environment may put in place of the file
Replacements == {<< >>, <<1>>, <<1, 0, 1, 0>>}


\* ------------------------------------------------------------ file mode
VARIABLES
    fileExists,     \* os.path.isfile(path)
    fileReadable,   \* open(path, "rb") is permitted
    fileData,       \* the bytes the path names
    envLeft,        \* environment events still allowed
    pc,             \* position of the handler inside _serve_video
    range_header,   \* self.headers.get("Range")
    file_size, start, end, length, remaining,
    fOpen, fData, fPos,     \* the handle of "with open(path, 'rb') as f"
    statusLines,    \* status codes sent by send_response / send_error
    reason,         \* message of send_error
    hdrs,           \* headers sent before end_headers()
    body,           \* bytes passed to self.wfile.write
    raised,         \* exception that left _serve_video, or "none"
    touched,        \* the file changed since the request started
    peerGone        \* the client closed the connection

fileVars == <<fileExists, fileReadable, fileData>>
localVars == <<file_size, start, end, length, remaining>>
handleVars == <<fOpen, fData, fPos>>
respVars == <<statusLines, reason, hdrs, body, raised>>
videoVars == <<fileVars, envLeft, pc, range_header, localVars, handleVars,
               respVars, touched, peerGone>>

NoText == [present |-> FALSE, text |-> << >>]
Text(t) == [present |-> TRUE, text |-> t]

NoHeaders ==
    [sent |-> FALSE, ContentType |-> "", ContentLength |-> NoText,
     ContentRange |-> NoText, AcceptRanges |-> "", CacheControl |-> ""]

\* "if range_header:" is the truth value of an optional string
HasRange(h) == h.present /\ h.text # << >>

\* headers of the 206 branch
Headers206(r, size) ==
    [sent |-> TRUE, ContentType |-> "video/mp4",
     ContentLength |-> Text(str(r.length)),
     ContentRange |-> Text(ContentRangeText(r.start, r.end, size)),
     AcceptRanges |-> "bytes", CacheControl |-> "no-store"]

\* Headers200 with the Content-Range line of the 206 branch copied along
Headers200_CopyOf206(size) ==
    [sent |-> TRUE, ContentType |-> "video/mp4",
     ContentLength |-> Text(str(size)),
     ContentRange |-> Text(ContentRangeText(0, size - 1, size)),
     AcceptRanges |-> "bytes", CacheControl |-> "no-store"]

\* headers of the 200 branch
Headers200(size) ==
    [sent |-> TRUE, ContentType |-> "video/mp4",
     ContentLength |-> Text(str(size)),
     ContentRange |-> NoText,
     AcceptRanges |-> "bytes", CacheControl |-> "no-store"]

\* f.read(n) at offset pos of the open file
ReadAt(data, pos, n) ==
    IF pos >= Len(data) THEN << >>
    ELSE SubSeq(data, pos + 1, Min(pos + n, Len(data)))

VideoInit ==
    /\ fileExists \in BOOLEAN
    /\ fileReadable \in BOOLEAN
    /\ fileData \in Files
    /\ envLeft = MaxEnv
    /\ pc = "idle"
    /\ range_header = NoRange
    /\ file_size = 0 /\ start = 0 /\ end = 0 /\ length = 0 /\ remaining = 0
    /\ fOpen = FALSE /\ fData = << >> /\ fPos = 0
    /\ statusLines = << >> /\ reason = "" /\ hdrs = NoHeaders
    /\ body = << >> /\ raised = "none"
    /\ touched = FALSE /\ peerGone = FALSE

\* do_GET dispatches a GET /video to _serve_video
Request(h) ==
    /\ pc \in {"idle", "done"}
    /\ pc' = "isfile"
    /\ range_header' = h
    /\ file_size' = 0 /\ start' = 0 /\ end' = 0 /\ length' = 0 /\ remaining' = 0
    /\ fOpen' = FALSE /\ fData' = << >> /\ fPos' = 0
    /\ statusLines' = << >> /\ reason' = "" /\ hdrs' = NoHeaders
    /\ body' = << >> /\ raised' = "none"
    /\ touched' = FALSE /\ peerGone' = FALSE
    /\ UNCHANGED <<fileVars, envLeft>>

\* if not os.path.isfile(path): self.send_error(404, "Video not found")
ServeVideoIsFile ==
    /\ pc = "isfile"
    /\ IF fileExists
       THEN /\ pc' = "getsize"
            /\ UNCHANGED <<statusLines, reason>>
       ELSE /\ pc' = "done"
            /\ statusLines' = Append(statusLines, 404)
            /\ reason' = "Video not found"
    /\ UNCHANGED <<fileVars, envLeft, range_header, localVars, handleVars,
                   hdrs, body, raised, touched, peerGone>>

\* file_size = os.path.getsize(path)
ServeVideoGetSize ==
    /\ pc = "getsize"
    /\ IF fileExists
       THEN /\ file_size' = Len(fileData)
            /\ pc' = "headers"
            /\ UNCHANGED raised
       ELSE /\ raised' = "FileNotFoundError"
            /\ pc' = "done"
            /\ UNCHANGED file_size
    /\ UNCHANGED <<fileVars, envLeft, range_header, start, end, length,
                   remaining, handleVars, statusLines, reason, hdrs, body,
                   touched, peerGone>>

\* the Range parsing and the response head of either branch
ServeVideoHeaders ==
    /\ pc = "headers"
    /\ IF HasRange(range_header)
       THEN LET r == ResolveRange(range_header.text, file_size)
            IN  /\ start' = r.start /\ end' = r.end /\ length' = r.length
                /\ statusLines' = Append(statusLines, 206)
                /\ hdrs' = Headers206(r, file_size)
       ELSE /\ statusLines' = Append(statusLines, 200)
            /\ hdrs' = Headers200(file_size)
            /\ UNCHANGED <<start, end, length>>
    /\ pc' = "open"
    /\ UNCHANGED <<fileVars, envLeft, range_header, file_size, remaining,
                   handleVars, reason, body, raised, touched, peerGone>>

\* with open(path, "rb") as f:  [f.seek(start); remaining = length]
ServeVideoOpen ==
    /\ pc = "open"
    /\ IF ~fileExists
       THEN /\ raised' = "FileNotFoundError" /\ pc' = "done"
            /\ UNCHANGED <<handleVars, remaining>>
       ELSE IF ~fileReadable
       THEN /\ raised' = "PermissionError" /\ pc' = "done"
            /\ UNCHANGED <<handleVars, remaining>>
       ELSE IF HasRange(range_header)
       THEN IF start < 0
            THEN \* f.seek of a negative offset: the with block closes f
                 /\ raised' = "OSError" /\ pc' = "done"
                 /\ fOpen' = FALSE /\ fData' = << >> /\ fPos' = 0
                 /\ UNCHANGED remaining
            ELSE /\ fOpen' = TRUE /\ fData' = fileData /\ fPos' = start
                 /\ remaining' = length
                 /\ pc' = "loop206"
                 /\ UNCHANGED raised
       ELSE /\ fOpen' = TRUE /\ fData' = fileData /\ fPos' = 0
            /\ pc' = "loop200"
            /\ UNCHANGED <<raised, remaining>>
    /\ UNCHANGED <<fileVars, envLeft, range_header, file_size, start, end,
                   length, statusLines, reason, hdrs, body, touched, peerGone>>

\* leaving the with block closes the handle
CloseHandle == fOpen' = FALSE /\ fData' = << >> /\ fPos' = 0

\* one turn of "while remaining > 0"
ServeVideoLoop206 ==
    /\ pc = "loop206"
    /\ IF remaining > 0
       THEN LET data == ReadAt(fData, fPos, Min(chunk, remaining))
            IN  IF data = << >>
                THEN /\ CloseHandle /\ pc' = "done"
                     /\ UNCHANGED <<body, remaining, raised>>
                ELSE IF peerGone
                THEN /\ CloseHandle /\ pc' = "done"
                     /\ raised' = "BrokenPipeError"
                     /\ UNCHANGED <<body, remaining>>
                ELSE /\ body' = body \o data
                     /\ remaining' = remaining - Len(data)
                     /\ fPos' = fPos + Len(data)
                     /\ UNCHANGED <<pc, fOpen, fData, raised>>
       ELSE /\ CloseHandle /\ pc' = "done"
            /\ UNCHANGED <<body, remaining, raised>>
    /\ UNCHANGED <<fileVars, envLeft, range_header, file_size, start, end,
                   length, statusLines, reason, hdrs, touched, peerGone>>

\* one turn of "for chunk in iter(lambda: f.read(64 * 1024), b'')"
ServeVideoLoop200 ==
    /\ pc = "loop200"
    /\ LET data == ReadAt(fData, fPos, chunk)
       IN  IF data = << >>
           THEN /\ CloseHandle /\ pc' = "done"
                /\ UNCHANGED <<body, raised>>
           ELSE IF peerGone
           THEN /\ CloseHandle /\ pc' = "done"
                /\ raised' = "BrokenPipeError"
                /\ UNCHANGED body
           ELSE /\ body' = body \o data
                /\ fPos' = fPos + Len(data)
                /\ UNCHANGED <<pc, fOpen, fData, raised>>
    /\ UNCHANGED <<fileVars, envLeft, range_header, localVars,
                   statusLines, reason, hdrs, touched, peerGone>>

InRequest == pc \notin {"idle", "done"}

\* the file is deleted while a request is being served
EnvRemove ==
    /\ InRequest /\ envLeft > 0 /\ fileExists
    /\ fileExists' = FALSE
    /\ envLeft' = envLeft - 1
    /\ touched' = TRUE
    /\ UNCHANGED <<fileReadable, fileData, pc, range_header, localVars,
                   handleVars, respVars, peerGone>>

\* the file loses its read permission while a request is being served
EnvChmod ==
    /\ InRequest /\ envLeft > 0 /\ fileExists /\ fileReadable
    /\ fileReadable' = FALSE
    /\ envLeft' = envLeft - 1
    /\ touched' = TRUE
    /\ UNCHANGED <<fileExists, fileData, pc, range_header, localVars,
                   handleVars, respVars, peerGone>>

\* another file is renamed over the path; an open handle keeps the old bytes
EnvReplace(d) ==
    /\ InRequest /\ envLeft > 0
    /\ fileExists' = TRUE /\ fileReadable' = TRUE /\ fileData' = d
    /\ envLeft' = envLeft - 1
    /\ touched' = TRUE
    /\ UNCHANGED <<pc, range_header, localVars, handleVars, respVars, peerGone>>

\* the file is rewritten in place; an open handle sees the new bytes
EnvOverwrite(d) ==
    /\ InRequest /\ envLeft > 0 /\ fileExists
    /\ fileData' = d
    /\ fData' = IF fOpen THEN d ELSE fData
    /\ envLeft' = envLeft - 1
    /\ touched' = TRUE
    /\ UNCHANGED <<fileExists, fileReadable, pc, range_header, localVars,
                   fOpen, fPos, respVars, peerGone>>

\* the client goes away while the body is being written
EnvHangUp ==
    /\ pc \in {"loop200", "loop206"} /\ envLeft > 0 /\ ~peerGone
    /\ peerGone' = TRUE
    /\ envLeft' = envLeft - 1
    /\ UNCHANGED <<fileVars, pc, range_header, localVars, handleVars,
                   respVars, touched>>

\* ------------------------------------------------------------ live mode
MaxPulls == 2       \* calls of the frame supplier
MaxStops == 2       \* calls of stop()
MaxIters == 2       \* turns of the /stream loop per viewer
NumViewers == 1     \* /stream connections; they share nothing but reads of latest_frame

Viewers == 1..NumViewers

\* _JPEG_PLACEHOLDER, a few symbolic bytes standing for the decoded image
Placeholder == <<9, 9, 9>>

\* payloads the frame supplier can return
Frames == {<<1>>, <<2, 2>>}

\* Python values that travel through frame / latest_frame
PyNone == [isNone |-> TRUE, data |-> << >>]
PyBytes(d) == [isNone |-> FALSE, data |-> d]

\* Truthy with the test written "if frame is not None"
Truthy_NotNone(v) == ~v.isNone

\* truth value of "if frame:"
Truthy(v) == ~v.isNone /\ v.data # << >>

PullResults == {PyNone, PyBytes(<< >>)} \cup {PyBytes(f) : f \in Frames}

\* rates are counted in tenths of a frame per second
ConfiguredRates == {0, 240}

\* self.fps = max(fps, 0.1)
CoerceFps(f) == IF f > 1 THEN f ELSE 1

\* time.sleep(1.0 / fps) lasts at least as long as join(timeout=1)
SleepOutlastsJoin(f) == f <= 10

\* InitialFrame with latest_frame starting as b""
InitialFrame_Empty == PyBytes(<< >>)

\* latest_frame right after __init__
InitialFrame == PyBytes(Placeholder)

VARIABLES
    latest_frame, stop_event, fps, hasClose,
    workerPc,       \* position of _run: check, call, assign, sleep, exited, crashed
    wframe,         \* the local "frame" of _run
    pulls,          \* calls of frame_supplier so far
    cycles,         \* turns of the loop of _run begun so far
    faults,         \* calls of frame_supplier that raised
    yields,         \* non-empty payloads the supplier has returned
    lastYield,      \* the latest of them
    produced,       \* the same payloads, in the order of the calls
    pullAfterClose, \* the supplier was called after its close()
    lastPub,        \* the payload _run assigned to latest_frame last
    stopPc,         \* position of the caller of stop()
    stopCalls, closeCalls, logged,
    closeFails,     \* calls of close() that raised
    joins,          \* calls of stop() that got past the join
    stopReturned,   \* some call of stop() has returned
    vpc, vframe,    \* position and local "frame" of each _serve_stream
    parts,          \* what each viewer was sent, part by part
    served,         \* completed turns of each viewer's loop
    conn,           \* lastPub and lastYield when the viewer connected
    fetch1,         \* lastPub at the viewer's first get_latest()
    vraised,        \* the exception that left each _serve_stream, or "none"
    midPart         \* latest_frame at the header write of the part under way, and
                    \* whether it had been replaced by the body write

producerVars == <<latest_frame, stop_event, fps, hasClose>>
workerVars == <<workerPc, wframe, pulls, cycles, faults, yields, lastYield, produced,
               pullAfterClose, lastPub>>
stopVars == <<stopPc, stopCalls, closeCalls, logged, closeFails, joins,
             stopReturned>>
viewerVars == <<vpc, vframe, parts, served, conn, fetch1, vraised, midPart>>
liveVars == <<producerVars, workerVars, stopVars, viewerVars>>

\* ---------------------------------------------------------------- routing
VARIABLES
    mode,           \* "file": _VideoRequestHandler, "live": _CameraRequestHandler
    disk,           \* the paths that name a file under the handler's directory
    rpc,            \* position of do_GET: idle, index, media, static, done
    rpath,          \* self.path
    rhandler,       \* the method that answered
    rstatus,        \* the status it sent; 0 where the model leaves it to the method
    rfromDisk       \* the answer was a file read from the handler's directory

routeVars == <<mode, disk, rpc, rpath, rhandler, rstatus, rfromDisk>>

vars == <<videoVars, liveVars, routeVars>>

Slash == <<"/">>
IndexHtml == <<"/", "i", "n", "d", "e", "x", ".", "h", "t", "m", "l">>
VideoPrefix == <<"/", "v", "i", "d", "e", "o">>
StreamPrefix == <<"/", "s", "t", "r", "e", "a", "m">>

\* files that may lie in the directory the handler serves
StaticFiles == {<<"/", "a">>, <<"/", "s">>, <<"/", "v", "i", "d">>}

\* request paths: the routes, longer paths with their prefixes, other paths
RequestPaths ==
    {Slash, IndexHtml, VideoPrefix, VideoPrefix \o <<".", "m", "p", "4">>,
     StreamPrefix, StreamPrefix \o <<"2">>} \cup StaticFiles

\* str.startswith
startswith(p, q) == Len(p) >= Len(q) /\ SubSeq(p, 1, Len(q)) = q

\* the directory SimpleHTTPRequestHandler serves: the video's directory where
\* partial() passes directory=, the working directory of the process where
\* it does not
Directory(m) == IF m = "file" THEN "video_dir" ELSE "cwd"

\* the prefix each handler routes to its media method
MediaPrefix(m) == IF m = "file" THEN VideoPrefix ELSE StreamPrefix

\* the media method of each handler
MediaMethod(m) == IF m = "file" THEN "_serve_video" ELSE "_serve_stream"

\* no request has arrived
RouteIdle ==
    /\ rpc = "idle" /\ rpath = << >> /\ rhandler = "none"
    /\ rstatus = 0 /\ rfromDisk = FALSE

RouteInit ==
    /\ mode \in {"file", "live"}
    /\ disk \in SUBSET StaticFiles
    /\ RouteIdle

\* do_GET of either handler: the two tests and the fall-through
DoGet(p) ==
    /\ rpc = "idle"
    /\ rpath' = p
    /\ rpc' = IF p \in {Slash, IndexHtml} THEN "index"
              ELSE IF startswith(p, MediaPrefix(mode)) THEN "media"
              ELSE "static"
    /\ UNCHANGED <<mode, disk, rhandler, rstatus, rfromDisk>>

\* _serve_index: send_response(200) and the page
ServeIndex ==
    /\ rpc = "index"
    /\ rhandler' = "_serve_index" /\ rstatus' = 200
    /\ rpc' = "done"
    /\ UNCHANGED <<mode, disk, rpath, rfromDisk>>

\* _serve_video or _serve_stream takes the request over
ServeMedia ==
    /\ rpc = "media"
    /\ rhandler' = MediaMethod(mode)
    /\ rpc' = "done"
    /\ UNCHANGED <<mode, disk, rpath, rstatus, rfromDisk>>

\* return super().do_GET(): SimpleHTTPRequestHandler sends the file the path
\* names under its directory, or 404
SuperDoGet ==
    /\ rpc = "static"
    /\ rhandler' = "SimpleHTTPRequestHandler.do_GET"
    /\ rstatus' = IF rpath \in disk THEN 200 ELSE 404
    /\ rfromDisk' = (rpath \in disk)
    /\ rpc' = "done"
    /\ UNCHANGED <<mode, disk, rpath>>

NoPayload == [valid |-> FALSE, data |-> << >>]
Payload(d) == [valid |-> TRUE, data |-> d]

\* no part is under way
NoPart == [latest |-> PyNone, swapped |-> FALSE]

\* the /stream connections VS before any of them is accepted
ViewerInit(VS) ==
    /\ vpc = [v \in VS |-> "idle"]
    /\ vframe = [v \in VS |-> PyNone]
    /\ parts = [v \in VS |-> << >>]
    /\ served = [v \in VS |-> 0]
    /\ conn = [v \in VS |-> [done |-> FALSE, pub |-> NoPayload, yield |-> NoPayload]]
    /\ fetch1 = [v \in VS |-> [done |-> FALSE, pub |-> NoPayload]]
    /\ vraised = [v \in VS |-> "none"]
    /\ midPart = [v \in VS |-> NoPart]

\* _FrameProducer.__init__: the thread is started, no viewer is connected
LiveInit ==
    /\ fps \in {CoerceFps(f) : f \in ConfiguredRates}
    /\ hasClose \in BOOLEAN
    /\ latest_frame = InitialFrame
    /\ stop_event = FALSE
    /\ workerPc = "check" /\ wframe = PyNone
    /\ pulls = 0 /\ cycles = 0 /\ faults = 0
    /\ yields = {} /\ lastYield = NoPayload /\ lastPub = NoPayload
    /\ produced = << >> /\ pullAfterClose = FALSE
    /\ stopPc = "idle" /\ stopCalls = 0 /\ closeCalls = 0 /\ logged = 0
    /\ closeFails = 0 /\ joins = 0
    /\ stopReturned = FALSE
    /\ ViewerInit(Viewers)

\* while not self._stop_event.is_set():
WorkerCheck ==
    /\ workerPc = "check"
    /\ workerPc' = IF stop_event THEN "exited" ELSE "call"
    /\ cycles' = IF stop_event THEN cycles ELSE cycles + 1
    /\ UNCHANGED <<producerVars, wframe, pulls, faults, yields, lastYield,
                   produced, pullAfterClose, lastPub, stopVars, viewerVars>>

\* frame = self.frame_supplier(), when the supplier returns r
WorkerPull(r) ==
    /\ workerPc = "call"
    /\ pulls < MaxPulls
    /\ pulls' = pulls + 1
    /\ wframe' = r
    /\ workerPc' = "assign"
    /\ yields' = IF Truthy(r) THEN yields \cup {r.data} ELSE yields
    /\ lastYield' = IF Truthy(r) THEN Payload(r.data) ELSE lastYield
    /\ produced' = IF Truthy(r) THEN Append(produced, r.data) ELSE produced
    /\ pullAfterClose' = (pullAfterClose \/ closeCalls > 0)
    /\ UNCHANGED <<producerVars, cycles, faults, lastPub, stopVars, viewerVars>>

\* frame = self.frame_supplier(), when the supplier raises: nothing in _run
\* catches it and the thread ends
WorkerPullRaises ==
    /\ workerPc = "call"
    /\ pulls < MaxPulls
    /\ pulls' = pulls + 1
    /\ faults' = faults + 1
    /\ workerPc' = "crashed"
    /\ pullAfterClose' = (pullAfterClose \/ closeCalls > 0)
    /\ UNCHANGED <<producerVars, wframe, cycles, yields, lastYield, produced, lastPub,
                   stopVars, viewerVars>>

\* Publish with an else branch that puts the placeholder back
Publish_ResetOnEmpty(frame, latest) ==
    IF Truthy(frame) THEN frame ELSE InitialFrame

\* Publish with the test inverted, "if not frame"
Publish_Inverted(frame, latest) == IF ~Truthy(frame) THEN frame ELSE latest

\* if frame: self.latest_frame = frame
Publish(frame, latest) == IF Truthy(frame) THEN frame ELSE latest

WorkerAssign ==
    /\ workerPc = "assign"
    /\ latest_frame' = Publish(wframe, latest_frame)
    /\ lastPub' = IF Truthy(wframe) THEN Payload(wframe.data) ELSE lastPub
    /\ workerPc' = "sleep"
    /\ UNCHANGED <<stop_event, fps, hasClose, wframe, pulls, cycles, faults, yields,
                   lastYield, produced, pullAfterClose, stopVars, viewerVars>>

\* time.sleep(delay) returns
WorkerWake ==
    /\ workerPc = "sleep"
    /\ workerPc' = "check"
    /\ UNCHANGED <<producerVars, wframe, pulls, cycles, faults, yields, lastYield,
                   produced, pullAfterClose, lastPub, stopVars, viewerVars>>

WorkerDead == workerPc \in {"exited", "crashed"}

\* a caller enters stop()
StopBegin ==
    /\ stopPc \in {"idle", "returned"}
    /\ stopCalls < MaxStops
    /\ stopCalls' = stopCalls + 1
    /\ stopPc' = "set"
    /\ UNCHANGED <<producerVars, workerVars, closeCalls, logged, closeFails,
                   joins, stopReturned, viewerVars>>

\* self._stop_event.set()
StopSetEvent ==
    /\ stopPc = "set"
    /\ stop_event' = TRUE
    /\ stopPc' = "close"
    /\ UNCHANGED <<latest_frame, fps, hasClose, workerVars, stopCalls,
                   closeCalls, logged, closeFails, joins, stopReturned,
                   viewerVars>>

\* CloseOutcome without the try: the exception of close() leaves stop()
CloseOutcome_NoTry(closeRaises) ==
    IF closeRaises THEN [pc |-> "raised", logs |-> 0]
                   ELSE [pc |-> "join", logs |-> 0]

\* try: close() / except Exception: logging.exception(...): where stop()
\* goes on and how many records it logs
CloseOutcome(closeRaises) ==
    [pc |-> "join", logs |-> IF closeRaises THEN 1 ELSE 0]

\* if hasattr(self.frame_supplier, "close"): try close() except: log
StopClose(closeRaises) ==
    /\ stopPc = "close"
    /\ IF hasClose
       THEN /\ closeCalls' = closeCalls + 1
            /\ closeFails' = IF closeRaises THEN closeFails + 1 ELSE closeFails
            /\ logged' = logged + CloseOutcome(closeRaises).logs
            /\ stopPc' = CloseOutcome(closeRaises).pc
       ELSE /\ ~closeRaises
            /\ stopPc' = "join"
            /\ UNCHANGED <<closeCalls, closeFails, logged>>
    /\ UNCHANGED <<producerVars, workerVars, stopCalls, joins, stopReturned,
                   viewerVars>>

\* join(timeout=1) can give up while the worker sits in the supplier or in a
\* sleep of a second or more
JoinCanTimeOut ==
    \/ workerPc = "call"
    \/ workerPc = "sleep" /\ SleepOutlastsJoin(fps)

\* self._thread.join(timeout=1) returns, and stop() with it
StopJoin ==
    /\ stopPc = "join"
    /\ WorkerDead \/ JoinCanTimeOut
    /\ stopPc' = "returned"
    /\ stopReturned' = TRUE
    /\ joins' = joins + 1
    /\ UNCHANGED <<producerVars, workerVars, stopCalls, closeCalls, logged,
                   closeFails, viewerVars>>

\* do_GET -> _serve_stream: send_response(200), headers, end_headers()
ViewerConnect(v) ==
    /\ vpc[v] = "idle"
    /\ \A u \in Viewers : u < v => vpc[u] # "idle"
    /\ vpc' = [vpc EXCEPT ![v] = "get"]
    /\ conn' = [conn EXCEPT ![v] = [done |-> TRUE, pub |-> lastPub, yield |-> lastYield]]
    /\ UNCHANGED <<producerVars, workerVars, stopVars, vframe, parts, served, fetch1,
                   vraised, midPart>>

\* get_latest(self): return self.latest_frame
get_latest == latest_frame

\* ViewerGet taking the frame out of the producer, as a queue consumer would
ViewerGet_Taking(v) ==
    /\ vpc[v] = "get"
    /\ served[v] < MaxIters
    /\ vframe' = [vframe EXCEPT ![v] = get_latest]
    /\ vpc' = [vpc EXCEPT ![v] = IF Truthy(get_latest) THEN "write_header" ELSE "sleep"]
    /\ served' = [served EXCEPT ![v] = IF Truthy(get_latest) THEN @ ELSE @ + 1]
    /\ fetch1' = [fetch1 EXCEPT ![v] = IF @.done THEN @ ELSE [done |-> TRUE, pub |-> lastPub]]
    /\ latest_frame' = PyNone
    /\ UNCHANGED <<stop_event, fps, hasClose, workerVars, stopVars, parts, conn,
                   vraised, midPart>>

\* frame = self.frame_producer.get_latest(); if frame: ...
ViewerGet(v) ==
    /\ vpc[v] = "get"
    /\ served[v] < MaxIters
    /\ vframe' = [vframe EXCEPT ![v] = get_latest]
    /\ vpc' = [vpc EXCEPT ![v] = IF Truthy(get_latest) THEN "write_header" ELSE "sleep"]
    /\ served' = [served EXCEPT ![v] = IF Truthy(get_latest) THEN @ ELSE @ + 1]
    /\ fetch1' = [fetch1 EXCEPT ![v] = IF @.done THEN @ ELSE [done |-> TRUE, pub |-> lastPub]]
    /\ UNCHANGED <<producerVars, workerVars, stopVars, parts, conn,
                   vraised, midPart>>

\* the part header: boundary, Content-Type and Content-Length: len(frame)
PartHeader(frame) ==
    [boundary |-> "--frame", ctype |-> "image/jpeg", clen |-> Len(frame.data),
     hasBody |-> FALSE, body |-> << >>, crlf |-> FALSE]

\* self.wfile.write(header)
ViewerWriteHeader(v) ==
    /\ vpc[v] = "write_header"
    /\ parts' = [parts EXCEPT ![v] = Append(@, PartHeader(vframe[v]))]
    /\ vpc' = [vpc EXCEPT ![v] = "write_frame"]
    /\ midPart' = [midPart EXCEPT ![v] = [latest |-> latest_frame, swapped |-> FALSE]]
    /\ UNCHANGED <<producerVars, workerVars, stopVars, vframe, served, conn, fetch1,
                   vraised>>

\* BodyToWrite reading latest_frame again for the body
BodyToWrite_Reread(v) == get_latest.data

\* the argument of self.wfile.write(frame): the local the header was built from
BodyToWrite(v) == vframe[v].data

\* self.wfile.write(frame)
ViewerWriteFrame(v) ==
    /\ vpc[v] = "write_frame"
    /\ parts' = [parts EXCEPT ![v][Len(parts[v])] =
                    [@ EXCEPT !.hasBody = TRUE, !.body = BodyToWrite(v)]]
    /\ vpc' = [vpc EXCEPT ![v] = "write_crlf"]
    /\ midPart' = [midPart EXCEPT ![v] =
                      [latest |-> PyNone, swapped |-> latest_frame # @.latest]]
    /\ UNCHANGED <<producerVars, workerVars, stopVars, vframe, served, conn, fetch1,
                   vraised>>

\* self.wfile.write(b"\r\n"); self.wfile.flush()
ViewerWriteCrlf(v) ==
    /\ vpc[v] = "write_crlf"
    /\ parts' = [parts EXCEPT ![v][Len(parts[v])] = [@ EXCEPT !.crlf = TRUE]]
    /\ vpc' = [vpc EXCEPT ![v] = "sleep"]
    /\ served' = [served EXCEPT ![v] = @ + 1]
    /\ midPart' = [midPart EXCEPT ![v] = NoPart]
    /\ UNCHANGED <<producerVars, workerVars, stopVars, vframe, conn, fetch1,
                   vraised>>

\* time.sleep(1.0 / self.frame_producer.fps) returns
ViewerWake(v) ==
    /\ vpc[v] = "sleep"
    /\ served[v] < MaxIters
    /\ vpc' = [vpc EXCEPT ![v] = "get"]
    /\ UNCHANGED <<producerVars, workerVars, stopVars, vframe, parts, served,
                   conn, fetch1, vraised, midPart>>

\* except (BrokenPipeError, ConnectionResetError): return
StreamCaught == {"BrokenPipeError", "ConnectionResetError"}

\* what a write or flush on the socket can raise: the peer closed or reset
\* the connection, or went silent until the kernel gave up (ETIMEDOUT)
TransportFaults == StreamCaught \cup {"TimeoutError"}

\* a wfile.write or the flush of _serve_stream raises exc: the except clause
\* returns for the exceptions it names, any other leaves _serve_stream
ViewerWriteFault(v, exc) ==
    /\ vpc[v] \in {"write_header", "write_frame", "write_crlf"}
    /\ vpc' = [vpc EXCEPT ![v] = IF exc \in StreamCaught THEN "returned" ELSE "raised"]
    /\ vraised' = [vraised EXCEPT ![v] = IF exc \in StreamCaught THEN "none" ELSE exc]
    /\ UNCHANGED <<producerVars, workerVars, stopVars, vframe, parts, served,
                   conn, fetch1, midPart>>

\* ------------------------------------------------------- specifications
VideoNext ==
    \/ \E h \in RangeHeaders : Request(h) /\ UNCHANGED <<liveVars, routeVars>>
    \/ ServeVideoIsFile /\ UNCHANGED <<liveVars, routeVars>>
    \/ ServeVideoGetSize /\ UNCHANGED <<liveVars, routeVars>>
    \/ ServeVideoHeaders /\ UNCHANGED <<liveVars, routeVars>>
    \/ ServeVideoOpen /\ UNCHANGED <<liveVars, routeVars>>
    \/ ServeVideoLoop206 /\ UNCHANGED <<liveVars, routeVars>>
    \/ ServeVideoLoop200 /\ UNCHANGED <<liveVars, routeVars>>
    \/ EnvRemove /\ UNCHANGED <<liveVars, routeVars>>
    \/ EnvChmod /\ UNCHANGED <<liveVars, routeVars>>
    \/ \E d \in Replacements : EnvReplace(d) /\ UNCHANGED <<liveVars, routeVars>>
    \/ \E d \in Replacements : EnvOverwrite(d) /\ UNCHANGED <<liveVars, routeVars>>
    \/ EnvHangUp /\ UNCHANGED <<liveVars, routeVars>>

StreamNext ==
    \/ WorkerCheck /\ UNCHANGED <<videoVars, routeVars>>
    \/ \E r \in PullResults : WorkerPull(r) /\ UNCHANGED <<videoVars, routeVars>>
    \/ WorkerPullRaises /\ UNCHANGED <<videoVars, routeVars>>
    \/ WorkerAssign /\ UNCHANGED <<videoVars, routeVars>>
    \/ WorkerWake /\ UNCHANGED <<videoVars, routeVars>>
    \/ \E v \in Viewers : ViewerConnect(v) /\ UNCHANGED <<videoVars, routeVars>>
    \/ \E v \in Viewers : ViewerGet(v) /\ UNCHANGED <<videoVars, routeVars>>
    \/ \E v \in Viewers : ViewerWriteHeader(v) /\ UNCHANGED <<videoVars, routeVars>>
    \/ \E v \in Viewers : ViewerWriteFrame(v) /\ UNCHANGED <<videoVars, routeVars>>
    \/ \E v \in Viewers : ViewerWriteCrlf(v) /\ UNCHANGED <<videoVars, routeVars>>
    \/ \E v \in Viewers : ViewerWake(v) /\ UNCHANGED <<videoVars, routeVars>>

FaultNext ==
    \/ StreamNext
    \/ \E v \in Viewers, exc \in TransportFaults :
          ViewerWriteFault(v, exc) /\ UNCHANGED <<videoVars, routeVars>>

StopNext ==
    \/ WorkerCheck /\ UNCHANGED <<videoVars, routeVars>>
    \/ \E r \in PullResults : WorkerPull(r) /\ UNCHANGED <<videoVars, routeVars>>
    \/ WorkerPullRaises /\ UNCHANGED <<videoVars, routeVars>>
    \/ WorkerAssign /\ UNCHANGED <<videoVars, routeVars>>
    \/ WorkerWake /\ UNCHANGED <<videoVars, routeVars>>
    \/ StopBegin /\ UNCHANGED <<videoVars, routeVars>>
    \/ StopSetEvent /\ UNCHANGED <<videoVars, routeVars>>
    \/ \E b \in BOOLEAN : StopClose(b) /\ UNCHANGED <<videoVars, routeVars>>
    \/ StopJoin /\ UNCHANGED <<videoVars, routeVars>>

\* two /stream connections side by side; ThreadingHTTPServer runs each
\* handler in a thread of its own
ViewerPair == {1, 2}

StallNext ==
    \/ WorkerCheck /\ UNCHANGED <<videoVars, routeVars>>
    \/ \E r \in PullResults : WorkerPull(r) /\ UNCHANGED <<videoVars, routeVars>>
    \/ WorkerAssign /\ UNCHANGED <<videoVars, routeVars>>
    \/ WorkerWake /\ UNCHANGED <<videoVars, routeVars>>
    \/ \E v \in ViewerPair : ViewerConnect(v) /\ UNCHANGED <<videoVars, routeVars>>
    \/ \E v \in ViewerPair : ViewerGet(v) /\ UNCHANGED <<videoVars, routeVars>>
    \/ \E v \in ViewerPair : ViewerWriteHeader(v) /\ UNCHANGED <<videoVars, routeVars>>
    \/ \E v \in ViewerPair : ViewerWriteFrame(v) /\ UNCHANGED <<videoVars, routeVars>>
    \/ \E v \in ViewerPair : ViewerWriteCrlf(v) /\ UNCHANGED <<videoVars, routeVars>>
    \/ \E v \in ViewerPair : ViewerWake(v) /\ UNCHANGED <<videoVars, routeVars>>

RouteNext ==
    \/ \E p \in RequestPaths : DoGet(p) /\ UNCHANGED <<videoVars, liveVars>>
    \/ ServeIndex /\ UNCHANGED <<videoVars, liveVars>>
    \/ ServeMedia /\ UNCHANGED <<videoVars, liveVars>>
    \/ SuperDoGet /\ UNCHANGED <<videoVars, liveVars>>

\* an idle file-mode handler over an empty file
VideoIdle == VideoInit /\ fileExists /\ fileReadable /\ fileData = << >>

\* a file-mode handler over an empty directory, before any request
NoRoute == mode = "file" /\ disk = {} /\ RouteIdle

\* the file-mode server; the live side stays as constructed
SpecVideoInit ==
    /\ VideoInit
    /\ LiveInit /\ fps = CoerceFps(0) /\ hasClose = FALSE
    /\ NoRoute
SpecVideo == SpecVideoInit /\ [][VideoNext]_vars

\* the acquisition worker and the /stream viewers; stop() is not called
SpecStreamInit ==
    /\ LiveInit /\ fps = CoerceFps(240) /\ hasClose = FALSE
    /\ VideoIdle /\ NoRoute
SpecStream == SpecStreamInit /\ [][StreamNext]_vars

\* SpecStream with sockets whose writes can fail
SpecFault == SpecStreamInit /\ [][FaultNext]_vars

\* the acquisition worker and two viewers, each of which may stay in a write
\* for any length of time
SpecStallInit ==
    /\ fps = CoerceFps(240) /\ hasClose = FALSE
    /\ latest_frame = InitialFrame
    /\ stop_event = FALSE
    /\ workerPc = "check" /\ wframe = PyNone
    /\ pulls = 0 /\ cycles = 0 /\ faults = 0
    /\ yields = {} /\ lastYield = NoPayload /\ lastPub = NoPayload
    /\ produced = << >> /\ pullAfterClose = FALSE
    /\ stopPc = "idle" /\ stopCalls = 0 /\ closeCalls = 0 /\ logged = 0
    /\ closeFails = 0 /\ joins = 0
    /\ stopReturned = FALSE
    /\ ViewerInit(ViewerPair)
    /\ VideoIdle /\ NoRoute
SpecStall == SpecStallInit /\ [][StallNext]_vars

\* the acquisition worker and the callers of stop(); no viewer connects
SpecStopInit == LiveInit /\ VideoIdle /\ NoRoute
SpecStop == SpecStopInit /\ [][StopNext]_vars

\* do_GET of the two handlers, one request over each content of the directory
SpecRouteInit ==
    /\ RouteInit
    /\ VideoIdle
    /\ LiveInit /\ fps = CoerceFps(0) /\ hasClose = FALSE
SpecRoute == SpecRouteInit /\ [][RouteNext]_vars

\* ------------------------------------------------- file mode: properties

\* the request ran against a present, readable file that nobody changed, and
\* the client stayed connected
Undisturbed == fileExists /\ fileReadable /\ ~touched /\ ~peerGone

\* the header "bytes=<s>-<e>"
ValidRangeHeader(s, e) == Text(BytesEq \o str(s) \o <<"-">> \o str(e))

\* C1: a Range header bytes=<start>-<end> with 0 <= start <= end < size is
\* answered with 206, Content-Range "bytes start-end/size", Content-Length
\* end-start+1 and exactly the file's bytes start..end, in order.
C1_ValidRangeServed ==
    \A s \in 0..MaxSize, e \in 0..MaxSize :
        ( /\ pc = "done"
          /\ Undisturbed
          /\ s <= e /\ e < Len(fileData)
          /\ range_header = ValidRangeHeader(s, e) )
        => /\ statusLines = <<206>>
           /\ raised = "none"
           /\ hdrs.ContentRange = Text(ContentRangeText(s, e, Len(fileData)))
           /\ hdrs.ContentLength = Text(str(e - s + 1))
           /\ Len(body) = e - s + 1
           /\ body = SubSeq(fileData, s + 1, e + 1)

\* a three-byte span, longer than one chunk, has been served
C1_Witness ==
    /\ pc = "done" /\ Undisturbed
    /\ range_header = ValidRangeHeader(0, 2)
    /\ statusLines = <<206>>
    /\ body = fileData /\ Len(body) = 3

\* C2: a request without a Range header on an existing file is answered
\* with 200, Content-Length equal to the size, no Content-Range, and the
\* whole file as its body.
C2_NoRangeWholeFile ==
    ( pc = "done" /\ Undisturbed /\ ~range_header.present )
    => /\ statusLines = <<200>>
       /\ raised = "none"
       /\ hdrs.sent
       /\ hdrs.ContentLength = Text(str(Len(fileData)))
       /\ ~hdrs.ContentRange.present
       /\ body = fileData

\* a whole file longer than one chunk has been served without a Range header
C2_Witness ==
    /\ pc = "done" /\ Undisturbed
    /\ ~range_header.present
    /\ statusLines = <<200>>
    /\ Len(body) = 3

\* C3: a Range header that is present but does not match bytes=<start>-[<end>]
\* is answered like a request without Range: 200 and the whole file
\* (stated for the files of one byte or more).
C3_MalformedRangeIs200 ==
    ( /\ pc = "done" /\ Undisturbed
      /\ Len(fileData) >= 1
      /\ range_header.present
      /\ ~re_match(range_header.text).matched )
    => /\ statusLines = <<200>>
       /\ raised = "none"
       /\ ~hdrs.ContentRange.present
       /\ body = fileData

\* C4: for every Range header that matches the pattern the resolved range
\* satisfies 0 <= start <= end <= size-1 and the announced length is >= 1
\* (stated for the files of one byte or more).
C4_ResolvedRangeWellFormed ==
    ( /\ pc \in {"open", "loop206", "done"}
      /\ file_size >= 1
      /\ statusLines = <<206>>
      /\ range_header.present
      /\ re_match(range_header.text).matched )
    => /\ 0 <= start /\ start <= end /\ end <= file_size - 1
       /\ length >= 1
       /\ hdrs.ContentLength = Text(str(end - start + 1))

\* the handler found the file missing or unreadable at one of its accesses
FileFailed ==
    \/ \E i \in 1..Len(statusLines) : statusLines[i] = 404
    \/ raised \in {"FileNotFoundError", "PermissionError"}

\* C5: whenever the file is missing or unreadable at request time, also when
\* it vanishes after the existence check, the request ends with 404 and a
\* reason, and no 200/206 status line is sent.
C5_MissingFileIs404 ==
    ( pc = "done" /\ FileFailed )
    => /\ statusLines = <<404>>
       /\ reason # ""
       /\ raised = "none"

\* ------------------------------------------------- live mode: properties

\* a complete part carrying the payload d
WholePart(d) ==
    [boundary |-> "--frame", ctype |-> "image/jpeg", clen |-> Len(d),
     hasBody |-> TRUE, body |-> d, crlf |-> TRUE]

\* C6 as stated: a viewer that connected before any frame was published
\* receives the placeholder as its first part.
C6_ConnectedBeforePublish ==
    \A v \in Viewers :
        ( conn[v].done /\ ~conn[v].pub.valid /\ served[v] >= 1 )
        => /\ Len(parts[v]) >= 1
           /\ parts[v][1] = WholePart(Placeholder)

\* C6 amended: a viewer whose first fetch of latest comes before any frame was
\* published receives, as its first part, a well-formed part carrying the
\* placeholder.
C6_FetchedBeforePublish ==
    \A v \in Viewers :
        ( fetch1[v].done /\ ~fetch1[v].pub.valid /\ served[v] >= 1 )
        => /\ Len(parts[v]) >= 1
           /\ parts[v][1] = WholePart(Placeholder)

\* a viewer holds the whole placeholder part while the supplier has not
\* returned from its first call
C6_Witness ==
    \E v \in Viewers :
        /\ parts[v] = <<WholePart(Placeholder)>>
        /\ served[v] = 1
        /\ pulls = 0 /\ workerPc = "call"

\* C7 as stated: once the supplier yields one specific non-empty payload, a
\* viewer that connects afterwards receives that payload.
C7_ConnectedAfterYield ==
    \A v \in Viewers :
        ( /\ conn[v].done /\ conn[v].yield.valid
          /\ yields = {conn[v].yield.data}
          /\ served[v] >= 1 )
        => /\ Len(parts[v]) >= 1
           /\ parts[v][1].body = conn[v].yield.data

\* C7 amended: once the worker has published a non-empty payload, a viewer
\* whose first fetch of latest comes afterwards receives, as its first part,
\* the payload published last, not the placeholder.
C7_FetchedAfterPublish ==
    \A v \in Viewers :
        ( fetch1[v].done /\ fetch1[v].pub.valid /\ served[v] >= 1 )
        => /\ Len(parts[v]) >= 1
           /\ parts[v][1] = WholePart(fetch1[v].pub.data)
           /\ parts[v][1].body # Placeholder

\* a viewer that fetched after a publication holds that payload
C7_Witness ==
    \E v \in Viewers :
        /\ fetch1[v].done /\ fetch1[v].pub.valid
        /\ served[v] >= 1
        /\ Len(parts[v]) >= 1
        /\ parts[v][1].body \in Frames

\* C8: once stop() has returned, the acquisition worker has exited.
C8_WorkerGoneAfterStop == stopReturned => WorkerDead

\* C9: over any sequence of stop() calls close() is invoked at most once.
C9_CloseAtMostOnce == closeCalls <= 1

\* C10: a pull that raises leaves the worker alive.
C10_FaultAbsorbed == faults > 0 => workerPc # "crashed"

\* the frame the supplier returned last, the placeholder before the first
Newest == IF produced = << >> THEN Placeholder ELSE produced[Len(produced)]

\* what latest_frame held before the frame returned last was returned
BeforeNewest ==
    IF Len(produced) <= 1 THEN Placeholder ELSE produced[Len(produced) - 1]

\* C11: each cycle pulls the source once; a non-empty result becomes latest
\* as it is, an empty one (None or b"") leaves latest alone, so latest is at
\* all times the placeholder or a non-empty frame the source returned.
C11_LatestIsPlaceholderOrFrame ==
    /\ pulls = IF workerPc = "call" THEN cycles - 1 ELSE cycles
    /\ ~latest_frame.isNone /\ latest_frame.data # << >>
    /\ latest_frame.data = Placeholder \/ latest_frame.data \in yields
    /\ workerPc = "assign" =>
           latest_frame.data = IF Truthy(wframe) THEN BeforeNewest ELSE Newest
    /\ workerPc = "sleep" =>
           /\ Truthy(wframe) => latest_frame = wframe
           /\ latest_frame.data = Newest

\* an empty pull went by after a publication and latest still holds the frame
C11_Witness ==
    /\ workerPc = "sleep"
    /\ wframe \in {PyNone, PyBytes(<< >>)}
    /\ lastPub.valid
    /\ latest_frame.data \in Frames

\* C12: a close() that fails inside stop() is logged and nothing else: no
\* exception leaves stop(), and every call still goes through the join.
C12_CloseFailureOnlyLogged ==
    /\ stopPc # "raised"
    /\ logged = closeFails
    /\ joins = IF stopPc \in {"set", "close", "join"} THEN stopCalls - 1
                                                      ELSE stopCalls

\* a stop() whose close() raised has returned after the worker exited
C12_Witness ==
    /\ stopPc = "returned"
    /\ closeFails >= 1 /\ logged >= 1
    /\ workerPc = "exited"

\* the bodies a viewer was sent, in the order of the writes
Bodies(v) ==
    LET sent == SelectSeq(parts[v], LAMBDA p : p.hasBody)
    IN  [i \in 1..Len(sent) |-> sent[i].body]

\* the placeholder followed by the frames in production order
Timeline == <<Placeholder>> \o produced

\* bodies can be laid on timeline from position "from" on without stepping back
RECURSIVE InOrder(_, _, _)
InOrder(bodies, timeline, from) ==
    IF bodies = << >> THEN TRUE
    ELSE LET js == {j \in from..Len(timeline) : timeline[j] = Head(bodies)}
         IN  /\ js # {}
             /\ InOrder(Tail(bodies), timeline,
                        CHOOSE j \in js : \A k \in js : j <= k)

InWrite(v) == vpc[v] \in {"write_header", "write_frame", "write_crlf"}

\* C14: a viewer that stays in a write for any length of time holds back
\* neither the worker's next pull or replacement of latest nor the loop of
\* another viewer: a step of a viewer changes nothing of the producer, of the
\* worker or of any other viewer, and while a viewer sits in a write every
\* step the worker or another viewer has reached can be taken.
C14_StalledViewerHoldsNobody ==
    /\ [][\A v \in DOMAIN vpc :
             vpc'[v] # vpc[v] =>
                 /\ UNCHANGED <<producerVars, workerVars, stopVars>>
                 /\ \A u \in DOMAIN vpc \ {v} :
                        /\ vpc'[u] = vpc[u] /\ vframe'[u] = vframe[u]
                        /\ parts'[u] = parts[u] /\ served'[u] = served[u]]_vars
    /\ [](\A v \in DOMAIN vpc :
             InWrite(v) =>
                 /\ workerPc = "check" => ENABLED WorkerCheck
                 /\ (workerPc = "call" /\ pulls < MaxPulls) =>
                        ENABLED (\E r \in PullResults : WorkerPull(r))
                 /\ workerPc = "assign" => ENABLED WorkerAssign
                 /\ workerPc = "sleep" => ENABLED WorkerWake
                 /\ \A u \in DOMAIN vpc \ {v} :
                        /\ (vpc[u] = "get" /\ served[u] < MaxIters) =>
                               ENABLED ViewerGet(u)
                        /\ vpc[u] = "write_header" => ENABLED ViewerWriteHeader(u)
                        /\ vpc[u] = "write_frame" => ENABLED ViewerWriteFrame(u)
                        /\ vpc[u] = "write_crlf" => ENABLED ViewerWriteCrlf(u))

\* viewer 1 is still writing the placeholder it fetched at the start, while
\* the worker has published a frame and viewer 2 has been sent it whole
C14_Witness ==
    /\ DOMAIN vpc = ViewerPair
    /\ vpc[1] = "write_frame" /\ vframe[1] = PyBytes(Placeholder)
    /\ served[1] = 0
    /\ lastPub.valid /\ pulls >= 2
    /\ served[2] >= 1
    /\ \E i \in 1..Len(parts[2]) : parts[2][i] = WholePart(lastPub.data)

\* C15: whatever a write or flush of the /stream loop raises, the loop ends
\* and _serve_stream returns normally: no exception leaves it.
C15_NoFaultLeavesStream ==
    \A v \in Viewers : vpc[v] # "raised" /\ vraised[v] = "none"

\* C16: when a write of the body fails because the client went away, on the
\* 200 and on the 206 branch alike, _serve_video stops writing, the file
\* handle is closed and no exception leaves _serve_video.
C16_BodyWriteFailureSwallowed ==
    ( pc = "done" /\ peerGone /\ ~touched )
    => /\ ~fOpen
       /\ raised = "none"

\* C18: the body written has as many bytes as the Content-Length announced,
\* also when the file was replaced by a shorter or a longer one between the
\* read of its size and the end of the reads (stated for the requests that
\* ran to their end without an exception and, on the 206 branch, with a
\* range that is in order).
C18_BodyMatchesContentLength ==
    ( /\ pc = "done" /\ raised = "none" /\ ~peerGone
      /\ \/ statusLines = <<200>>
         \/ statusLines = <<206>> /\ 0 <= start /\ start <= end )
    => hdrs.ContentLength = Text(str(Len(body)))

\* a path that neither handler routes to its index or to its media method
Unrouted(m, p) == p \notin {Slash, IndexHtml} /\ ~startswith(p, MediaPrefix(m))

\* C17: in live mode a GET of a path other than "/", "/index.html" and the
\* paths that begin with "/stream" is answered with 404 and never with a file
\* from disk; in file mode such a path is served as a static file from the
\* video's directory.
C17_UnroutedPaths ==
    ( rpc = "done" /\ Unrouted(mode, rpath) )
    => /\ mode = "live" => rstatus = 404 /\ ~rfromDisk
       /\ mode = "file" =>
              /\ rhandler = "SimpleHTTPRequestHandler.do_GET"
              /\ Directory(mode) = "video_dir"
              /\ rfromDisk = (rpath \in disk)

\* C19: each part of /stream comes from one read of latest: the length in
\* its header is the length of the body written after it, and the body is one
\* whole frame, also when the worker replaces latest between the write of the
\* header and the write of the body.
C19_PartFromOneRead ==
    \A v \in Viewers :
        /\ \A i \in 1..Len(parts[v]) :
               parts[v][i].hasBody =>
                   /\ parts[v][i].clen = Len(parts[v][i].body)
                   /\ parts[v][i].body \in {Placeholder} \cup yields
        /\ vpc[v] \in {"write_frame", "write_crlf"} =>
               parts[v][Len(parts[v])].clen = Len(vframe[v].data)
        /\ vpc[v] = "write_crlf" =>
               parts[v][Len(parts[v])].body = vframe[v].data

\* latest was replaced by a frame of another length between the header and
\* the body of a part, and the body written is the frame the header announced
C19_Witness ==
    \E v \in Viewers :
        /\ vpc[v] = "write_crlf"
        /\ midPart[v].swapped
        /\ Len(latest_frame.data) # Len(vframe[v].data)
        /\ parts[v][Len(parts[v])].hasBody
        /\ parts[v][Len(parts[v])].body = vframe[v].data

\* C20: however stop() and the worker interleave, the source is never pulled
\* after its close() has been called.
C20_NoPullAfterClose == ~pullAfterClose
====
